---- MODULE Spec2Model ----
(***************************************************************************)
(* Build-time asset pipeline of the Iley portfolio (build-assets script):  *)
(* extractDriveFileId, createSafeFilename, detectFileType, downloadFile,   *)
(* processSheetTab, syncFilenames and processAssets, modelled as a state   *)
(* machine over the records, the asset directory and the call stack of     *)
(* downloadFile.                                                           *)
(*                                                                         *)
(* Strings are sequences of tokens: a file name is the characters of the   *)
(* slug, "-", the field name, "-", the characters of the identifier and    *)
(* the extension, so that startsWith is the prefix order on sequences.     *)
(* A URL is the record of the parts the script's regular expressions and   *)
(* template literals read and write.                                       *)
(*                                                                         *)
(* Spec is the whole pipeline, run NumRuns times on one directory; SpecFetch *)
(* is one downloadFile call of an orchestrator against any server;         *)
(* SpecHops is that call against a server that only redirects or asks to   *)
(* confirm; SpecTransport is that call against a server that answers with  *)
(* a failure every time, under weak fairness.  SpecCache is the pipeline   *)
(* run CacheRuns times over records whose media values are empty, numbers, *)
(* local paths or plain links.  SpecPure applies detectFileType, the       *)
(* content-disposition match and extractDriveFileId to bounded inputs.     *)
(* SpecEnd is the pipeline over a sheet of Drive links against a server    *)
(* that serves a PNG image; SpecChain is one fetch through redirects that  *)
(* end in a media body; SpecBackoff is SpecTransport's server over calls   *)
(* of 1..MaxRetries attempts, with the time spent waiting in clock.        *)
(* SpecStream runs the data handler of one response chunk by chunk;        *)
(* SpecNoHops is one pipeline run against a server that sends neither a    *)
(* redirect nor a confirmation page, under weak fairness.                  *)
(*                                                                         *)
(* response is the last response the innermost call received and clock the *)
(* milliseconds the current fetch has waited between attempts; both are    *)
(* history variables no guard reads.                                       *)
(***************************************************************************)
EXTENDS Integers, Sequences, FiniteSets, TLC

\* ------------------------------------------------------------------ bounds
\* Redirect / interstitial continuations one top-level fetch may nest (Spec).
MaxHops == 2
\* The same, for the specification of hop chains (SpecHops).
LoopHops == 11
\* Pipeline runs against the same asset directory.
NumRuns == 2
\* The same, for the specification of the cache check (SpecCache).
CacheRuns == 3
\* Leading tokens of the buffers detectFileType is applied to on its own.
MaxWords == 3
\* Largest retry count downloadFile is called with on its own (SpecBackoff).
MaxRetries == 3
\* Chunks of the bodies the data handler is run on, event by event (SpecStream).
MaxChunks == 3

\* ------------------------------------------------------- program constants
MAX_FILE_SIZE == 100 * 1024 * 1024
DefaultRetries == 2
InterstitialRetries == 1
RedirectCodes == {301, 302, 303, 307, 308}
MediaFields == <<"thumbnailImage", "workImage1">>
HOME_PAGE_TAB == <<"H", "o", "m", "e", " ", "P", "a", "g", "e">>

\* JavaScript null (a file identifier is never empty: the patterns use +).
Null == <<>>
NullText == <<"n", "u", "l", "l">>

\* ------------------------------------------------------------------- URLs
\* shape: which fixed text surrounds the identifier.
Url(shape, id) == [shape |-> shape, id |-> id, confirm |-> "", uuid |-> ""]
NoUrl == Url("", Null)

GOOGLE_DRIVE_PATTERNS == <<"drive.google.com/file/d/<id>/view",
                           "drive.google.com/open?id=<id>",
                           "docs.google.com/.../d/<id>">>

\* A value that is no string, and what calling .match on it does.
NumberValue == Url("typeof number", Null)
IsString(url) == url # NumberValue
Throw == <<"TypeError">>

\* url.match(pattern)[1]: a URL may carry a second URL in its query (also);
\* the greedy .* of the third pattern then runs on to the last /d/<id>.
Match(url, k) ==
  LET inner == IF "also" \in DOMAIN url THEN url.also ELSE NoUrl
  IN IF url.shape = GOOGLE_DRIVE_PATTERNS[k]
     THEN IF k = 3 /\ inner.shape = GOOGLE_DRIVE_PATTERNS[k] THEN inner.id ELSE url.id
     ELSE IF inner.shape = GOOGLE_DRIVE_PATTERNS[k] /\ k # 3 THEN inner.id
     ELSE Null

RECURSIVE LastMatch(_, _)
LastMatch(url, k) ==
  IF ~IsString(url) THEN Throw
  ELSE IF k > Len(GOOGLE_DRIVE_PATTERNS) THEN Null
  ELSE IF LastMatch(url, k + 1) # Null THEN LastMatch(url, k + 1)
  ELSE Match(url, k)

\* for (const pattern of GOOGLE_DRIVE_PATTERNS) { ... if (match) return match[1] }
RECURSIVE FirstMatch(_, _)
FirstMatch(url, k) ==
  IF ~IsString(url) THEN Throw
  ELSE IF k > Len(GOOGLE_DRIVE_PATTERNS) THEN Null
  ELSE IF Match(url, k) # Null THEN Match(url, k)
  ELSE FirstMatch(url, k + 1)

extractDriveFileId(url) ==
  IF url = NoUrl \/ ~IsString(url) THEN Null ELSE FirstMatch(url, 1)

\* `${fileId}` inside a template literal.
Text(fileId) == IF fileId = Null THEN NullText ELSE fileId

getDirectDownloadUrl(url) ==
  LET fileId == extractDriveFileId(url)
  IN IF fileId = Null THEN NoUrl
     ELSE Url("drive.google.com/uc?export=download&id=<id>", Text(fileId))

ConfirmUrl(fileId, confirmValue, uuidValue) ==
  [shape |-> "drive.usercontent.google.com/download?id=<id>&export=download",
   id |-> Text(fileId), confirm |-> confirmValue, uuid |-> uuidValue]

\* ------------------------------------------------------------- file names
Lower == [c \in {"S", "H", "P", "A"} |->
            CASE c = "S" -> "s" [] c = "H" -> "h" [] c = "P" -> "p" [] c = "A" -> "a"]
toLowerCase(s) == [k \in 1..Len(s) |-> IF s[k] \in DOMAIN Lower THEN Lower[s[k]] ELSE s[k]]

Alnum == {"a", "b", "c", "d", "e", "f", "g", "h", "i", "j", "k", "l", "m",
          "n", "o", "p", "q", "r", "s", "t", "u", "v", "w", "x", "y", "z",
          "0", "1", "2", "3", "4", "5", "6", "7", "8", "9"}

\* replace(/[^a-z0-9]+/g, "-")
RECURSIVE Dashed(_, _)
Dashed(s, inRun) ==
  IF s = <<>> THEN <<>>
  ELSE IF Head(s) \in Alnum THEN <<Head(s)>> \o Dashed(Tail(s), FALSE)
  ELSE IF inRun THEN Dashed(Tail(s), TRUE)
  ELSE <<"-">> \o Dashed(Tail(s), TRUE)

\* replace(/^-+|-+$/g, "")
RECURSIVE TrimLeft(_)
TrimLeft(s) == IF s # <<>> /\ Head(s) = "-" THEN TrimLeft(Tail(s)) ELSE s
RECURSIVE TrimRight(_)
TrimRight(s) ==
  IF s # <<>> /\ s[Len(s)] = "-" THEN TrimRight(SubSeq(s, 1, Len(s) - 1)) ELSE s

safeName(projectName) == TrimRight(TrimLeft(Dashed(toLowerCase(projectName), FALSE)))

createSafeFilename(projectName, fieldName, originalUrl, tempExtension) ==
  safeName(projectName) \o <<"-", fieldName, "-">>
    \o Text(extractDriveFileId(originalUrl)) \o <<tempExtension>>

IsPrefix(p, s) == Len(p) <= Len(s) /\ SubSeq(s, 1, Len(p)) = p

\* path.extname of a name whose last token is its extension ("" when none).
extname(name) ==
  IF name # <<>> /\ name[Len(name)] \in {".tmp", ".png", ".jpg", ".gif", ".webp",
                                       ".mp4", ".mov", ".avi", ".webm"}
  THEN name[Len(name)] ELSE ""

\* filename.replace(/\.[^.]*$/, "") and path.basename(p, ".tmp")
StripExt(name) == IF extname(name) = "" THEN name ELSE SubSeq(name, 1, Len(name) - 1)
BasenameTmp(name) == IF extname(name) = ".tmp" THEN SubSeq(name, 1, Len(name) - 1) ELSE name

\* filepath.replace(path.extname(filepath), ext)
ReplaceExt(name, ext) == StripExt(name) \o <<ext>>

\* ------------------------------------------------------- directory (fs)
NoFile == [words |-> <<>>, size |-> 0]
WriteFile(d, n, c) == [m \in DOMAIN d \cup {n} |-> IF m = n THEN c ELSE d[m]]
Unlink(d, n) == [m \in DOMAIN d \ {n} |-> d[m]]
Rename(d, a, b) == WriteFile(Unlink(d, a), b, d[a])

\* ------------------------------------------------------ response bodies
\* A body is its leading tokens (4-byte words of a binary file, markup
\* tokens of a page) and the sizes of the chunks it is delivered in.

RECURSIVE Sum(_)
Sum(s) == IF s = <<>> THEN 0 ELSE Head(s) + Sum(Tail(s))

PngBody == [words |-> <<"89504e47", "0d0a1a0a", "IHDR">>, chunks |-> <<2 * 1024>>]
Mp4Body == [words |-> <<"0000", "ftyp", "isom">>, chunks |-> <<64 * 1024, 64 * 1024>>]
\* The second chunk crosses MAX_FILE_SIZE and another one follows it.
HugeBody == [words |-> <<"0000", "ftyp", "isom">>,
             chunks |-> <<60 * 1024 * 1024, 60 * 1024 * 1024, 60 * 1024 * 1024>>]
VirusPage == [words |-> <<"<!DOCTYPE html>", "<title>", "virus scan warning",
                          "name=\"confirm\" value=\"abc123\"",
                          "name=\"uuid\" value=\"xyz-789\"">>,
              chunks |-> <<2 * 1024>>]
VirusPageNoUuid == [words |-> <<"<!DOCTYPE html>", "<title>", "virus scan warning",
                                "name=\"confirm\" value=\"abc123\"">>,
                    chunks |-> <<2 * 1024>>]
ErrorPage == [words |-> <<"<html lang=en>", "<title>">>, chunks |-> <<1024>>]
\* A 200 without a body: "end" comes with no "data", the file stays empty.
EmptyBody == [words |-> <<>>, chunks |-> <<>>]

ServedBodies == {PngBody, HugeBody, VirusPage, VirusPageNoUuid, ErrorPage}

\* String.includes on the tokens of a text: the needles each token contains.
Needles(tok) ==
  CASE tok = "<!DOCTYPE html>" -> {"<!DOCTYPE"}
    [] tok = "<html lang=en>" -> {"<html"}
    [] tok = "<html>" -> {"<html", "<html>"}
    [] tok = "<title>" -> {"<title>"}
    [] tok = "virus scan warning" -> {"virus scan warning"}
    [] tok = "Google Drive can't scan this file" -> {"Google Drive can't scan this file"}
    [] OTHER -> {tok}
Includes(words, needle) == \E k \in 1..Len(words) : needle \in Needles(words[k])

\* /name="confirm"\s+value="([^"]+)"/ and /name="uuid"\s+value="([^"]+)"/
ConfirmValue(tok) == IF tok = "name=\"confirm\" value=\"abc123\"" THEN "abc123" ELSE ""
UuidValue(tok) == IF tok = "name=\"uuid\" value=\"xyz-789\"" THEN "xyz-789" ELSE ""
\* String.match returns the leftmost match.
Leftmost(hits) == CHOOSE k \in hits : \A j \in hits : k <= j
confirmMatch(words) ==
  LET hits == {k \in 1..Len(words) : ConfirmValue(words[k]) # ""}
  IN IF hits = {} THEN "" ELSE ConfirmValue(words[Leftmost(hits)])
uuidMatch(words) ==
  LET hits == {k \in 1..Len(words) : UuidValue(words[k]) # ""}
  IN IF hits = {} THEN "" ELSE UuidValue(words[Leftmost(hits)])

\* ------------------------------------------------------- detectFileType
\* The bytes a token stands for: a 4-byte word, or the characters of a tag.
ByteLen(tok) ==
  CASE tok = "<html>" -> 6
    [] tok = "<!DOCTYPE html>" -> 15
    [] tok = "<html lang=en>" -> 14
    [] tok = "<title>" -> 7
    [] OTHER -> 4
RECURSIVE Offset(_, _)
Offset(words, k) == IF k <= 1 THEN 0 ELSE ByteLen(words[k - 1]) + Offset(words, k - 1)
FirstPos(words, w) ==
  IF \E k \in 1..Len(words) : words[k] = w
  THEN CHOOSE k \in 1..Len(words) : words[k] = w /\ \A j \in 1..(k - 1) : words[j] # w
  ELSE 0
\* buffer.indexOf(w)
IndexOf(words, w) == IF FirstPos(words, w) = 0 THEN -1 ELSE Offset(words, FirstPos(words, w))
WordAt(words, k) == IF k <= Len(words) THEN words[k] ELSE ""
StartsFFD8FFE0(words) == WordAt(words, 1) = "ffd8ffe0"
\* buffer.slice(0, 2).toString("hex") === "ffd8"
StartsFFD8(words) == WordAt(words, 1) \in {"ffd8ffe0", "ffd8ffe1", "ffd8ffdb"}
BrandIncludesNoQt(brand) ==
  CASE brand \in {"mp41", "mp42"} -> {"mp4", brand}
    [] brand = "isom" -> {"isom"}
    [] brand = "M4V " -> {"M4V"}
    [] OTHER -> {}
\* brand.includes(needle), for the needles the function asks about
BrandIncludes(brand) ==
  CASE brand \in {"mp41", "mp42"} -> {"mp4", brand}
    [] brand = "isom" -> {"isom"}
    [] brand = "M4V " -> {"M4V"}
    [] brand = "qt  " -> {"qt"}
    [] OTHER -> {}

detectFileType(buffer) ==
  LET words == buffer.words
      ftypIndex == IndexOf(words, "ftyp")
      brand == WordAt(words, FirstPos(words, "ftyp") + 1)
  IN IF ftypIndex # -1 /\ ftypIndex <= 12
     THEN IF BrandIncludes(brand) \cap {"mp4", "isom", "M4V", "mp41", "mp42"} # {}
          THEN ".mp4"
          ELSE IF BrandIncludes(brand) \cap {"qt", "mov"} # {} THEN ".mov" ELSE ".mp4"
     ELSE IF WordAt(words, 1) = "AVI " THEN ".avi"
     ELSE IF WordAt(words, 1) = "RIFF" /\ WordAt(words, 3) = "AVI " THEN ".avi"
     ELSE IF WordAt(words, 1) = "1a45dfa3" THEN ".webm"
     ELSE IF StartsFFD8(words) THEN ".jpg"
     ELSE IF WordAt(words, 1) = "89504e47" /\ WordAt(words, 2) = "0d0a1a0a" THEN ".png"
     ELSE IF WordAt(words, 1) = "GIF8" /\ WordAt(words, 2) \in {"7a", "9a"} THEN ".gif"
     ELSE IF WordAt(words, 1) = "RIFF" /\ WordAt(words, 3) = "WEBP" THEN ".webp"
     ELSE IF buffer.size > 1024 * 1024 THEN ".mp4"
     ELSE IF buffer.size > 10000
             /\ \E k \in 1..Len(words) : k <= 25 /\ words[k] \in {"ftyp", "moov", "mdat"}
          THEN ".mp4"
     ELSE IF buffer.size < 5000
             /\ (Includes(words, "<html>") \/ Includes(words, "<!DOCTYPE"))
          THEN "throw"
     ELSE ".jpg"

\* ----------------------------------------------------- Content-Disposition
\* A header is the key as the server spelled it and the file name it declares.
\* A header is the key as the server spelled it and the value after "=": the
\* tokens of the file name, inside quotes or not.
NoHeader == [key |-> "", value |-> <<>>]
Headers == {NoHeader,
            [key |-> "filename", value |-> <<"clip", ".mov">>],
            [key |-> "filename", value |-> <<"clip">>],
            [key |-> "Filename", value |-> <<"clip", ".mov">>]}

\* filenameMatch[1].replace(/['"]/g, "")
IsNoQuote(tok) == tok \notin {"\"", "'"}
Unquote(value) == SelectSeq(value, IsNoQuote)

\* contentDisposition.match(/filename[^;=\n]*=((['"]).*?\2|[^;\n]*)/)
originalFilename(contentDisposition) ==
  IF contentDisposition.key = "filename" THEN Unquote(contentDisposition.value) ELSE <<>>

\* ------------------------------------------------------------ field values
Empty == [t |-> "empty", url |-> NoUrl, name |-> <<>>]
Ext(url) == [t |-> "url", url |-> url, name |-> <<>>]
Local(name) == [t |-> "local", url |-> NoUrl, name |-> name]
\* A value that is truthy and no string (a number or an object in the JSON).
Num == [t |-> "number", url |-> NoUrl, name |-> <<>>]
LocalUrl == Url("/assets/projects/<name>", Null)
UrlOf(v) ==
  CASE v.t = "url" -> v.url
    [] v.t = "number" -> NumberValue
    [] v.t = "local" -> LocalUrl
    [] OTHER -> NoUrl

ViewUrl(id) == Url(GOOGLE_DRIVE_PATTERNS[1], id)
OpenUrl(id) == Url(GOOGLE_DRIVE_PATTERNS[2], id)
OtherUrl == Url("example.com/picture", Null)

HomeKeys == <<"video", "caption">>

Project(v1, v2) ==
  [projectName |-> <<"S", "a", "m", "p", "l", "e">>, year |-> Ext(OtherUrl),
   thumbnailImage |-> v1, workImage1 |-> v2]

Inputs ==
  { [projects |-> <<Project(Ext(ViewUrl(<<"F">>)), v2)>>,
     home |-> <<[video |-> Ext(OpenUrl(<<"H">>)), caption |-> Ext(OtherUrl)]>>]
    : v2 \in {Ext(ViewUrl(<<"F">>)), Empty} }

\* Rows for the cache check: the second media field is empty, a number, a URL
\* of another site, or a local path naming the first field's temporary file;
\* the sheet has no Home Page tab.
CacheInputs ==
  { [projects |-> <<Project(Ext(ViewUrl(<<"F">>)), v2)>>, home |-> <<>>]
    : v2 \in {Empty, Num, Ext(OtherUrl),
              Local(createSafeFilename(<<"S", "a", "m", "p", "l", "e">>, "thumbnailImage",
                                       ViewUrl(<<"F">>), ".tmp"))} }

\* Two rows whose names give one slug and whose identifiers differ by a suffix,
\* in either order, next to the single rows; the sheet has no Home Page tab.
Named(name, v1, v2) ==
  [projectName |-> name, year |-> Ext(OtherUrl), thumbnailImage |-> v1, workImage1 |-> v2]
EndInputs ==
  { [projects |-> rows, home |-> <<>>] :
      rows \in { <<Project(Ext(ViewUrl(<<"F">>)), v2)>> : v2 \in {Empty, Ext(OpenUrl(<<"G">>)), Ext(ViewUrl(<<"F">>))} }
           \cup { <<Project(Ext(ViewUrl(<<"F">>)), Empty),
                    Named(<<"S", "a", "m", "p", "l", "e", "!">>, Ext(ViewUrl(<<"F", "X">>)), Empty)>>,
                  <<Named(<<"S", "a", "m", "p", "l", "e", "!">>, Ext(ViewUrl(<<"F", "X">>)), Empty),
                    Project(Ext(ViewUrl(<<"F">>)), Empty)>> } }

\* ------------------------------------------------------------------ state
VARIABLES
  run,            \* which pipeline run this is
  phase,          \* position of processAssets
  i, f,           \* record and field the loops are at
  input,          \* the rows the sheet serves (the same in every run)
  projects,       \* the project records of this run
  homeRows,       \* the Home Page rows of this run
  dir,            \* ASSETS_DIR: file name -> content
  downloadCount, skipCount, errorCount,
  written,        \* OUTPUT_FILE as written by each run
  homeWritten,    \* OUTPUT_HOME_FILE as written by each run
  stack,          \* the nested downloadFile calls of the fetch in progress
  result,         \* how the innermost call's promise settled
  filepath,       \* the path the fetch in progress writes
  fetchLog,       \* history: the downloadFile calls the orchestrators made this run
  sizeFailed,     \* history: an attempt of this fetch was rejected for size
  targetReqs,     \* history: requests of this fetch issued one redirect deep
  requests,       \* history: requests this fetch has issued
  stale,          \* paths whose rejected attempt left its response open
  response,       \* the response to the request the fetch issued last
  clock,          \* history: milliseconds this fetch has spent backing off
  arg,            \* the function applied on its own, and its argument
  ret             \* what that application returned

vars == <<run, phase, i, f, input, arg, ret, projects, homeRows, dir, downloadCount, skipCount,
          errorCount, written, homeWritten, stack, result, filepath, fetchLog,
          sizeFailed, targetReqs, requests, stale, response, clock>>

orch == <<run, phase, i, f, input, arg, ret, projects, homeRows, downloadCount, skipCount,
          errorCount, written, homeWritten, filepath, fetchLog>>

NoResult == [kind |-> "none", path |-> <<>>, error |-> ""]
NoCall == [fn |-> "none", x |-> <<>>]
NoRet == [done |-> FALSE, v |-> <<>>]
Ret(v) == [done |-> TRUE, v |-> v]
Resolved(path) == [kind |-> "resolved", path |-> path, error |-> ""]
Rejected(error) == [kind |-> "rejected", path |-> <<>>, error |-> error]
\* response.statusCode, response.headers.location, the body, content-disposition
NoResponse == [status |-> 0, location |-> FALSE, body |-> EmptyBody, header |-> NoHeader]
Response(status, location, body, header) ==
  [status |-> status, location |-> location, body |-> body, header |-> header]

Init ==
  /\ run = 1
  /\ phase = "init"
  /\ i = 1 /\ f = 1
  /\ input \in Inputs
  /\ projects = <<>>
  /\ homeRows = <<>>
  /\ dir = <<>>
  /\ downloadCount = 0 /\ skipCount = 0 /\ errorCount = 0
  /\ written = <<>>
  /\ homeWritten = <<>>
  /\ stack = <<>>
  /\ result = NoResult
  /\ filepath = <<>>
  /\ fetchLog = <<>>
  /\ sizeFailed = FALSE
  /\ targetReqs = 0
  /\ requests = 0
  /\ response = NoResponse
  /\ clock = 0
  /\ stale = {}
  /\ arg = NoCall /\ ret = NoRet

\* ------------------------------------------------------------ downloadFile
\* async function downloadFile(url, filepath, retries = 2, fileId = null)
RedirectRetries(frame) == frame.retries

Call(url, retries, fileId, via) ==
  [url |-> url, retries |-> retries, attempt |-> 1,
   fileId |-> IF fileId = Null THEN extractDriveFileId(url) ELSE fileId,
   via |-> via, pc |-> "start", reqs |-> 0]

Top == stack[Len(stack)]
Fetching == phase \in {"projects", "home"} /\ stack # <<>>
InFlight == Fetching /\ Top.pc = "inflight"
Hops == IF stack = <<>> THEN 0 ELSE Len(stack) - 1

Settle(r) ==
  /\ stack' = [stack EXCEPT ![Len(stack)].pc = "settled"]
  /\ result' = r

\* const file = fs.createWriteStream(filepath); const request = https.get(url, ...)
BeginAttempt ==
  /\ Fetching /\ Top.pc = "start"
  /\ dir' = WriteFile(dir, filepath, NoFile)
  /\ stack' = [stack EXCEPT ![Len(stack)].pc = "inflight", ![Len(stack)].reqs = @ + 1]
  /\ targetReqs' = IF Len(stack) = 2 /\ Top.via = "redirect"
                   THEN targetReqs + 1 ELSE targetReqs
  /\ requests' = requests + 1
  /\ response' = NoResponse
  /\ UNCHANGED <<orch, result, sizeFailed, stale, clock>>

\* The Location headers the server may send for a request.
Locations(url) == {Url("drive.usercontent.google.com/download?id=<id>", url.id)}

\* [301, 302, 303, 307, 308].includes(response.statusCode), with a Location
OnRedirect(bound) ==
  /\ InFlight /\ Hops < bound
  /\ \E status \in RedirectCodes, redirectUrl \in Locations(Top.url) :
       /\ stack' = Append([stack EXCEPT ![Len(stack)].pc = "child"],
                          Call(redirectUrl, RedirectRetries(Top), Top.fileId, "redirect"))
       /\ response' = Response(status, TRUE, EmptyBody, NoHeader)
  /\ UNCHANGED <<orch, dir, result, sizeFailed, targetReqs, requests, stale, clock>>

\* The same without a Location header: redirectUrl.substring throws inside the
\* response callback, outside every promise; nothing catches it.
OnRedirectNoLocation ==
  /\ InFlight
  /\ \E status \in RedirectCodes :
       /\ phase' = "uncaught"
       /\ response' = Response(status, FALSE, EmptyBody, NoHeader)
  /\ UNCHANGED <<run, i, f, input, arg, ret, projects, homeRows, downloadCount, skipCount,
                 errorCount, written, homeWritten, filepath, fetchLog, dir, stack,
                 result, sizeFailed, targetReqs, requests, stale, clock>>

\* `HTTP ${response.statusCode}: ${response.statusMessage}`
HttpError(status) ==
  CASE status = 403 -> "HTTP 403" [] status = 404 -> "HTTP 404"
    [] status = 429 -> "HTTP 429" [] status = 300 -> "HTTP 300"
    [] status = 305 -> "HTTP 305" [] OTHER -> "HTTP 500"

\* response.statusCode !== 200
OnHttpError ==
  /\ InFlight
  /\ \E status \in {403, 404, 429, 500} :
       /\ Settle(Rejected(HttpError(status)))
       /\ response' = Response(status, FALSE, EmptyBody, NoHeader)
  /\ UNCHANGED <<orch, dir, sizeFailed, targetReqs, requests, stale, clock>>

\* The same test for a 3xx status that is none of the five, sent with a Location.
OnOtherRedirectStatus ==
  /\ InFlight
  /\ \E status \in {300, 305} :
       /\ Settle(Rejected(HttpError(status)))
       /\ response' = Response(status, TRUE, EmptyBody, NoHeader)
  /\ UNCHANGED <<orch, dir, sizeFailed, targetReqs, requests, stale, clock>>

\* request.on("error", reject)
OnRequestError ==
  /\ InFlight
  /\ Settle(Rejected("network"))
  /\ UNCHANGED <<orch, dir, sizeFailed, targetReqs, requests, stale, response, clock>>

\* request.setTimeout(60000, ...): nothing, or the first chunk, was written.
OnTimeout ==
  /\ InFlight
  /\ \E part \in {NoFile, [words |-> Mp4Body.words, size |-> Mp4Body.chunks[1]]} :
       dir' = IF filepath \in DOMAIN dir THEN WriteFile(dir, filepath, part) ELSE dir
  /\ Settle(Rejected("timeout"))
  /\ UNCHANGED <<orch, sizeFailed, targetReqs, requests, stale, response, clock>>

\* response.on("data"): the chunks written before totalSize > MAX_FILE_SIZE.
RECURSIVE Accepted(_, _)
Accepted(chunks, totalSize) ==
  IF chunks = <<>> THEN <<>>
  ELSE IF totalSize + Head(chunks) > MAX_FILE_SIZE THEN <<>>
  ELSE <<Head(chunks)>> \o Accepted(Tail(chunks), totalSize + Head(chunks))
TooLarge(body) == Len(Accepted(body.chunks, 0)) < Len(body.chunks)

OnSizeExceeded ==
  /\ InFlight
  /\ \E body \in ServedBodies :
       /\ TooLarge(body)
       /\ dir' = Unlink(dir, filepath)
       /\ response' = Response(200, FALSE, body, NoHeader)
  /\ Settle(Rejected("size"))
  /\ sizeFailed' = TRUE
  /\ stale' = stale \cup {filepath}
  /\ UNCHANGED <<orch, targetReqs, requests, clock>>

\* response.on("data") of that response for a chunk after the one that crossed
\* the ceiling: totalSize is still over it, so fs.unlink(filepath) runs again,
\* on whatever is at the path by then.
OnStaleData ==
  /\ \E path \in stale :
       /\ path \in DOMAIN dir
       /\ dir' = Unlink(dir, path)
  /\ UNCHANGED <<orch, stack, result, sizeFailed, targetReqs, requests, stale, response, clock>>

\* response.on("end") of a response whose attempt was rejected for size: the
\* request was never destroyed, so the body went on arriving; file.end() on
\* the destroyed stream writes nothing.
OnStaleEnd ==
  /\ \E path \in stale : stale' = stale \ {path}
  /\ UNCHANGED <<orch, dir, stack, result, sizeFailed, targetReqs, requests, response, clock>>

\* fileContent.includes("<html") || ...("<!DOCTYPE") || ...("<title>")
LooksLikeHtml(words) ==
  Includes(words, "<html") \/ Includes(words, "<!DOCTYPE") \/ Includes(words, "<title>")

ClassifyDoctypeOnly(words) ==
  IF Includes(words, "<!DOCTYPE")
  THEN IF /\ Includes(words, "virus scan warning")
             \/ Includes(words, "Google Drive can't scan this file")
          /\ confirmMatch(words) # ""
          /\ uuidMatch(words) # ""
       THEN "interstitial"
       ELSE "html"
  ELSE "media"

\* file.on("finish"): what the first 1000 bytes of the written file are.
Classify(words) ==
  IF LooksLikeHtml(words)
  THEN IF /\ Includes(words, "virus scan warning")
             \/ Includes(words, "Google Drive can't scan this file")
          /\ confirmMatch(words) # ""
          /\ uuidMatch(words) # ""
       THEN "interstitial"
       ELSE "html"
  ELSE "media"

InterstitialCallKeepingBudget(frame, words) ==
  Call(ConfirmUrl(frame.fileId, confirmMatch(words), uuidMatch(words)),
       frame.retries, frame.fileId, "interstitial")

\* downloadFile(directUrl, filepath, 1, fileId)
InterstitialCall(frame, words) ==
  Call(ConfirmUrl(frame.fileId, confirmMatch(words), uuidMatch(words)),
       InterstitialRetries, frame.fileId, "interstitial")

OnInterstitial(bound) ==
  /\ InFlight /\ Hops < bound
  /\ \E body \in ServedBodies :
       /\ ~TooLarge(body)
       /\ Classify(body.words) = "interstitial"
       /\ stack' = Append([stack EXCEPT ![Len(stack)].pc = "child"],
                          InterstitialCall(Top, body.words))
       /\ response' = Response(200, FALSE, body, NoHeader)
  /\ filepath \in DOMAIN dir
  /\ dir' = Unlink(dir, filepath)
  /\ UNCHANGED <<orch, result, sizeFailed, targetReqs, requests, stale, clock>>

OnHtml ==
  /\ InFlight
  /\ \E body \in ServedBodies :
       /\ ~TooLarge(body) /\ Classify(body.words) = "html"
       /\ response' = Response(200, FALSE, body, NoHeader)
  /\ filepath \in DOMAIN dir
  /\ dir' = Unlink(dir, filepath)
  /\ Settle(Rejected("html"))
  /\ UNCHANGED <<orch, sizeFailed, targetReqs, requests, stale, clock>>

\* file.on("finish") when the path was unlinked under the open stream:
\* fs.readFileSync(filepath) throws inside the handler; nothing catches it.
OnFinishMissing ==
  /\ InFlight
  /\ filepath \notin DOMAIN dir
  /\ \E body \in ServedBodies :
       /\ ~TooLarge(body)
       /\ response' = Response(200, FALSE, body, NoHeader)
  /\ phase' = "uncaught"
  /\ UNCHANGED <<run, i, f, input, arg, ret, projects, homeRows, downloadCount, skipCount,
                 errorCount, written, homeWritten, filepath, fetchLog, dir, stack,
                 result, sizeFailed, targetReqs, requests, stale, clock>>

\* The name the finish handler leaves the file under.
FinalFilepath(path, declared, fileBuffer) ==
  IF declared # <<>>
  THEN IF extname(declared) # "" THEN ReplaceExt(path, extname(declared)) ELSE path
  ELSE IF extname(path) # detectFileType(fileBuffer)
       THEN ReplaceExt(path, detectFileType(fileBuffer)) ELSE path

\* file.on("finish") for a body that is no page: rename and resolve.
WrittenFirstChunk(body) ==
  [words |-> body.words, size |-> IF body.chunks = <<>> THEN 0 ELSE Head(body.chunks)]
\* file.write(chunk) for every chunk up to the ceiling; fs.readFileSync(filepath)
Written(body) == [words |-> body.words, size |-> Sum(Accepted(body.chunks, 0))]

FinishMedia(body, contentDisposition) ==
  LET fileBuffer == Written(body)
      declared == originalFilename(contentDisposition)
      finalFilepath == FinalFilepath(filepath, declared, fileBuffer)
  IN /\ ~TooLarge(body)
     /\ filepath \in DOMAIN dir
     /\ Classify(body.words) = "media"
     /\ declared # <<>> \/ detectFileType(fileBuffer) # "throw"
     /\ dir' = Rename(WriteFile(dir, filepath, fileBuffer), filepath, finalFilepath)
     /\ response' = Response(200, FALSE, body, contentDisposition)
     /\ Settle(Resolved(finalFilepath))

OnMediaOf(bodies) ==
  /\ InFlight
  /\ \E body \in bodies, contentDisposition \in Headers :
       FinishMedia(body, contentDisposition)
  /\ UNCHANGED <<orch, sizeFailed, targetReqs, requests, stale, clock>>

OnMedia == OnMediaOf(ServedBodies)

\* A 200 whose body is empty: "end" with no "data", then "finish".
OnEmptyBody ==
  /\ InFlight
  /\ \E contentDisposition \in Headers : FinishMedia(EmptyBody, contentDisposition)
  /\ UNCHANGED <<orch, sizeFailed, targetReqs, requests, stale, clock>>

AnyAttempt(frame) == frame.attempt >= 1
BackoffFixed(attempt) == 1000
\* await new Promise((resolve) => setTimeout(resolve, 1000 * attempt))
Backoff(attempt) == 1000 * attempt
\* attempt === retries
LastAttempt(frame) == frame.attempt = frame.retries

\* catch (error): if (attempt === retries) throw error; else back off and loop.
CatchRetry ==
  /\ Fetching /\ Top.pc = "settled" /\ result.kind = "rejected"
  /\ ~LastAttempt(Top)
  /\ stack' = [stack EXCEPT ![Len(stack)].attempt = @ + 1, ![Len(stack)].pc = "start"]
  /\ result' = NoResult
  /\ clock' = clock + Backoff(Top.attempt)
  /\ UNCHANGED <<orch, dir, sizeFailed, targetReqs, requests, stale, response>>

\* The caller's promise settles as the call does (.then(resolve).catch(reject)).
Pop ==
  stack' = IF Len(stack) = 1 THEN <<>>
           ELSE [SubSeq(stack, 1, Len(stack) - 1) EXCEPT ![Len(stack) - 1].pc = "settled"]

CatchThrow ==
  /\ Fetching /\ Top.pc = "settled" /\ result.kind = "rejected"
  /\ LastAttempt(Top)
  /\ Pop
  /\ UNCHANGED <<orch, dir, result, sizeFailed, targetReqs, requests, stale, response, clock>>

ReturnOwnPath(finalPath, path) == path
\* return _finalPath || filepath
ReturnValue(finalPath, path) == IF finalPath # <<>> THEN finalPath ELSE path

ReturnPath ==
  /\ Fetching /\ Top.pc = "settled" /\ result.kind = "resolved"
  /\ Pop
  /\ result' = Resolved(ReturnValue(result.path, filepath))
  /\ UNCHANGED <<orch, dir, sizeFailed, targetReqs, requests, stale, response, clock>>

\* ----------------------------------------------------------- processAssets
Idle == stack = <<>> /\ result = NoResult
eng == <<dir, stack, result, sizeFailed, targetReqs, requests, stale, response, clock>>

\* const projects = await fetchProjectData()
FetchProjectData ==
  /\ phase = "init"
  /\ phase' = "projects"
  /\ projects' = input.projects
  /\ i' = 1 /\ f' = 1
  /\ downloadCount' = 0 /\ skipCount' = 0 /\ errorCount' = 0
  /\ fetchLog' = <<>>
  /\ UNCHANGED <<run, input, arg, ret, homeRows, written, homeWritten, filepath, eng>>

\* fetchProjectData throws: catch (error) { process.exit(1) }
FetchProjectDataFails ==
  /\ phase = "init"
  /\ phase' = "exit1"
  /\ UNCHANGED <<run, i, f, input, arg, ret, projects, homeRows, downloadCount, skipCount,
                 errorCount, written, homeWritten, filepath, fetchLog, eng>>

\* The loops' next position: the next field, the next record, or past the end.
AfterField(rows, keys, after) ==
  /\ i' = IF f < Len(keys) THEN i ELSE i + 1
  /\ f' = IF f < Len(keys) THEN f + 1 ELSE 1
  /\ phase' = IF f = Len(keys) /\ i = Len(rows) THEN after ELSE phase

FieldName == MediaFields[f]
FieldUrl == UrlOf(projects[i][FieldName])
ProjectName ==
  IF projects[i].projectName = <<>> THEN <<"u", "n", "t", "i", "t", "l", "e", "d">>
  ELSE projects[i].projectName
Filename == createSafeFilename(ProjectName, FieldName, FieldUrl, ".tmp")
\* readdirSync(ASSETS_DIR).filter(file => file.startsWith(baseFilename) && file !== filename)
ExistingFiles == {file \in DOMAIN dir : IsPrefix(StripExt(Filename), file) /\ file # Filename}
\* existingFiles[0] (the directory's order is the file system's) is not a hit
PrefixMiss == ExistingFiles = {} \/ \E file \in ExistingFiles : dir[file].size = 0
ExactHit(d, path) == path \in DOMAIN d /\ d[path].size > 0

AtField == phase = "projects" /\ Idle

\* if (!url || typeof url !== "string") continue; if (!fileId) continue
SkipField ==
  /\ AtField
  /\ extractDriveFileId(FieldUrl) = Null
  /\ AfterField(projects, MediaFields, "sync")
  /\ UNCHANGED <<run, input, arg, ret, projects, homeRows, downloadCount, skipCount, errorCount,
                 written, homeWritten, filepath, fetchLog, eng>>

CacheHitPrefix ==
  /\ AtField
  /\ extractDriveFileId(FieldUrl) # Null
  /\ \E existingFile \in ExistingFiles :
       /\ dir[existingFile].size > 0
       /\ projects' = [projects EXCEPT ![i][FieldName] = Local(existingFile)]
  /\ skipCount' = skipCount + 1
  /\ AfterField(projects, MediaFields, "sync")
  /\ UNCHANGED <<run, input, arg, ret, homeRows, downloadCount, errorCount, written, homeWritten,
                 filepath, fetchLog, eng>>

CacheHitExact ==
  /\ AtField
  /\ extractDriveFileId(FieldUrl) # Null
  /\ PrefixMiss
  /\ ExactHit(dir, Filename)
  /\ projects' = [projects EXCEPT ![i][FieldName] = Local(Filename)]
  /\ skipCount' = skipCount + 1
  /\ AfterField(projects, MediaFields, "sync")
  /\ UNCHANGED <<run, input, arg, ret, homeRows, downloadCount, errorCount, written, homeWritten,
                 filepath, fetchLog, eng>>

LogEntry(origin, id) ==
  [run |-> run, origin |-> origin, i |-> i, f |-> f, id |-> id]

\* await downloadFile(downloadUrl, filepath)
StartDownload ==
  /\ AtField
  /\ extractDriveFileId(FieldUrl) # Null
  /\ PrefixMiss
  /\ ~ExactHit(dir, Filename)
  /\ filepath' = Filename
  /\ stack' = <<Call(getDirectDownloadUrl(FieldUrl), DefaultRetries, Null, "call")>>
  /\ fetchLog' = Append(fetchLog, LogEntry("projects", extractDriveFileId(FieldUrl)))
  /\ sizeFailed' = FALSE
  /\ targetReqs' = 0
  /\ requests' = 0
  /\ response' = NoResponse
  /\ clock' = 0
  /\ UNCHANGED <<run, phase, i, f, input, arg, ret, projects, homeRows, downloadCount, skipCount,
                 errorCount, written, homeWritten, dir, result, stale>>

ReturnedAny(kind) == phase \in {"projects", "home"} /\ stack = <<>> /\ result.kind # "none"
\* the await returns (kind "resolved") or throws into the catch ("rejected")
Returned(kind) == phase \in {"projects", "home"} /\ stack = <<>> /\ result.kind = kind

\* project[field] = `/assets/projects/${filename}`; downloadCount++
StoredPath(path, finalPath) == path

DownloadResolved ==
  /\ phase = "projects" /\ Returned("resolved")
  /\ projects' = [projects EXCEPT ![i][FieldName] = Local(StoredPath(filepath, result.path))]
  /\ downloadCount' = downloadCount + 1
  /\ result' = NoResult
  /\ requests' = 0
  /\ response' = NoResponse
  /\ clock' = 0
  /\ AfterField(projects, MediaFields, "sync")
  /\ UNCHANGED <<run, input, arg, ret, homeRows, skipCount, errorCount, written, homeWritten,
                 filepath, fetchLog, dir, stack, sizeFailed, targetReqs, stale>>

SameFieldAfterError(rows, keys, after) == i' = i /\ f' = f /\ phase' = phase

\* catch (error) { errorCount++ }: the for loop goes on to the next field
NextAfterError(rows, keys, after) == AfterField(rows, keys, after)

DownloadRejected ==
  /\ phase = "projects" /\ Returned("rejected")
  /\ errorCount' = errorCount + 1
  /\ result' = NoResult
  /\ requests' = 0
  /\ response' = NoResponse
  /\ clock' = 0
  /\ NextAfterError(projects, MediaFields, "sync")
  /\ UNCHANGED <<run, input, arg, ret, projects, homeRows, downloadCount, skipCount, written,
                 homeWritten, filepath, fetchLog, dir, stack, sizeFailed, targetReqs, stale>>

\* ----------------------------------------------------------- syncFilenames
\* currentPath.includes(".tmp")
IsTmpPath(v) == v.t = "local" /\ \E k \in 1..Len(v.name) : v.name[k] = ".tmp"
\* downloadedFiles.find(file => file.startsWith(baseName)) can return these
Matching(d, v) == {file \in DOMAIN d : IsPrefix(BasenameTmp(v.name), file)}
SyncTargets(projs, d) ==
  {t \in (1..Len(projs)) \X (1..Len(MediaFields)) :
     IsTmpPath(projs[t[1]][MediaFields[t[2]]])
     /\ Matching(d, projs[t[1]][MediaFields[t[2]]]) # {}}
FieldIndex(name) ==
  IF \E k \in 1..Len(MediaFields) : MediaFields[k] = name
  THEN CHOOSE k \in 1..Len(MediaFields) : MediaFields[k] = name ELSE 0
syncFilenames(projs, d, found) ==
  [p \in 1..Len(projs) |->
     [key \in DOMAIN projs[p] |->
        IF <<p, FieldIndex(key)>> \in DOMAIN found
        THEN Local(found[<<p, FieldIndex(key)>>]) ELSE projs[p][key]]]

\* currentPath.includes is not a function: a truthy value that is no string
NotAString(projs) ==
  \E p \in 1..Len(projs), j \in 1..Len(MediaFields) : projs[p][MediaFields[j]].t = "number"

\* await syncFilenames(projects); fs.writeFileSync(OUTPUT_FILE, ...)
SyncAndSave ==
  /\ phase = "sync"
  /\ ~NotAString(projects)
  /\ \E found \in [SyncTargets(projects, dir) -> DOMAIN dir] :
       /\ \A t \in DOMAIN found : found[t] \in Matching(dir, projects[t[1]][MediaFields[t[2]]])
       /\ projects' = syncFilenames(projects, dir, found)
  /\ written' = Append(written, [run |-> run, rows |-> projects'])
  /\ phase' = "hometab"
  /\ UNCHANGED <<run, i, f, input, arg, ret, homeRows, downloadCount, skipCount, errorCount,
                 homeWritten, filepath, fetchLog, eng>>

\* syncFilenames throws the TypeError; catch (error) { process.exit(1) }
SyncThrows ==
  /\ phase = "sync"
  /\ NotAString(projects)
  /\ phase' = "exit1"
  /\ UNCHANGED <<run, i, f, input, arg, ret, projects, homeRows, downloadCount, skipCount,
                 errorCount, written, homeWritten, filepath, fetchLog, eng>>

\* --------------------------------------------------------- processSheetTab
\* const rows = await fetchSheetTab(tabName)
FetchHomeTab ==
  /\ phase = "hometab"
  /\ homeRows' = input.home
  /\ i' = 1 /\ f' = 1
  /\ phase' = "home"
  /\ UNCHANGED <<run, input, arg, ret, projects, downloadCount, skipCount, errorCount, written,
                 homeWritten, filepath, fetchLog, eng>>

\* fetchSheetTab throws; processAssets warns and goes on
FetchHomeTabFails ==
  /\ phase = "hometab"
  /\ phase' = "abouttab"
  /\ UNCHANGED <<run, i, f, input, arg, ret, projects, homeRows, downloadCount, skipCount,
                 errorCount, written, homeWritten, filepath, fetchLog, eng>>

HomeKey == HomeKeys[f]
HomeUrl == UrlOf(homeRows[i][HomeKey])
\* `${tabName.toLowerCase().replace(/[^a-z0-9]+/g, "-")}-${i + 1}`
Digit(n) == CASE n = 1 -> "1" [] n = 2 -> "2" [] n = 3 -> "3" [] OTHER -> "9"
HomeBaseName == Dashed(toLowerCase(HOME_PAGE_TAB), FALSE) \o <<"-", Digit(i)>>
HomeFilename == createSafeFilename(HomeBaseName, HomeKey, HomeUrl, ".tmp")

AtHomeField == phase = "home" /\ Idle

HomeSkip ==
  /\ AtHomeField
  /\ extractDriveFileId(HomeUrl) = Null
  /\ AfterField(homeRows, HomeKeys, "homesave")
  /\ UNCHANGED <<run, input, arg, ret, projects, homeRows, downloadCount, skipCount, errorCount,
                 written, homeWritten, filepath, fetchLog, eng>>

\* if (fs.existsSync(filepath)) { if (stats.size > 0) { row[key] = ...; continue } }
HomeCacheHit(d, path) == ExactHit(d, path)

HomeHit ==
  /\ AtHomeField
  /\ extractDriveFileId(HomeUrl) # Null
  /\ HomeCacheHit(dir, HomeFilename)
  /\ homeRows' = [homeRows EXCEPT ![i][HomeKey] = Local(HomeFilename)]
  /\ AfterField(homeRows, HomeKeys, "homesave")
  /\ UNCHANGED <<run, input, arg, ret, projects, downloadCount, skipCount, errorCount, written,
                 homeWritten, filepath, fetchLog, eng>>

\* const finalPath = await downloadFile(downloadUrl, filepath, 2, fileId)
HomeStartDownload ==
  /\ AtHomeField
  /\ extractDriveFileId(HomeUrl) # Null
  /\ ~HomeCacheHit(dir, HomeFilename)
  /\ filepath' = HomeFilename
  /\ stack' = <<Call(getDirectDownloadUrl(HomeUrl), 2, extractDriveFileId(HomeUrl), "call")>>
  /\ fetchLog' = Append(fetchLog, LogEntry("home", extractDriveFileId(HomeUrl)))
  /\ sizeFailed' = FALSE
  /\ targetReqs' = 0
  /\ requests' = 0
  /\ response' = NoResponse
  /\ clock' = 0
  /\ UNCHANGED <<run, phase, i, f, input, arg, ret, projects, homeRows, downloadCount, skipCount,
                 errorCount, written, homeWritten, dir, result, stale>>

\* row[key] = `/assets/projects/${path.basename(finalPath)}`
HomeDownloadResolved ==
  /\ phase = "home" /\ Returned("resolved")
  /\ homeRows' = [homeRows EXCEPT ![i][HomeKey] = Local(result.path)]
  /\ result' = NoResult
  /\ requests' = 0
  /\ response' = NoResponse
  /\ clock' = 0
  /\ AfterField(homeRows, HomeKeys, "homesave")
  /\ UNCHANGED <<run, input, arg, ret, projects, downloadCount, skipCount, errorCount, written,
                 homeWritten, filepath, fetchLog, dir, stack, sizeFailed, targetReqs, stale>>

\* catch (err) { leave original value }
HomeDownloadRejected ==
  /\ phase = "home" /\ Returned("rejected")
  /\ result' = NoResult
  /\ requests' = 0
  /\ response' = NoResponse
  /\ clock' = 0
  /\ AfterField(homeRows, HomeKeys, "homesave")
  /\ UNCHANGED <<run, input, arg, ret, projects, homeRows, downloadCount, skipCount, errorCount,
                 written, homeWritten, filepath, fetchLog, dir, stack, sizeFailed,
                 targetReqs, stale>>

\* fs.writeFileSync(outputFile, JSON.stringify(rows, null, 2))
SaveHome ==
  /\ phase = "homesave"
  /\ homeWritten' = Append(homeWritten, [run |-> run, rows |-> homeRows])
  /\ phase' = "abouttab"
  /\ UNCHANGED <<run, i, f, input, arg, ret, projects, homeRows, downloadCount, skipCount,
                 errorCount, written, filepath, fetchLog, eng>>

\* processSheetTab(ABOUT_PAGE_TAB, ..., {downloadMedia: false}), saved or failing,
\* then the summary.
ProcessAboutTab ==
  /\ phase = "abouttab"
  /\ phase' = "done"
  /\ UNCHANGED <<run, i, f, input, arg, ret, projects, homeRows, downloadCount, skipCount,
                 errorCount, written, homeWritten, filepath, fetchLog, eng>>

\* The script is run again on the same data and the same directory.
\* (the process ends only once no response is open)
RunAgain(bound) ==
  /\ phase = "done" /\ run < bound
  /\ stale = {}
  /\ run' = run + 1
  /\ phase' = "init"
  /\ UNCHANGED <<i, f, input, arg, ret, projects, homeRows, downloadCount, skipCount, errorCount,
                 written, homeWritten, filepath, fetchLog, eng>>
NextRun == RunAgain(NumRuns)

\* ---------------------------------------------------------- specifications
\* The pipeline, run NumRuns times, against a server that answers every
\* request itself (no Location, no confirmation page) and serves no body over
\* MAX_FILE_SIZE.
Next ==
  \/ FetchProjectData \/ FetchProjectDataFails
  \/ SkipField \/ CacheHitPrefix \/ CacheHitExact \/ StartDownload
  \/ DownloadResolved \/ DownloadRejected
  \/ SyncAndSave
  \/ FetchHomeTab \/ FetchHomeTabFails
  \/ HomeSkip \/ HomeHit \/ HomeStartDownload
  \/ HomeDownloadResolved \/ HomeDownloadRejected
  \/ SaveHome \/ ProcessAboutTab \/ NextRun
  \/ BeginAttempt
  \/ OnRedirectNoLocation \/ OnHttpError \/ OnRequestError
  \/ OnTimeout \/ OnHtml \/ OnMedia
  \/ CatchRetry \/ CatchThrow \/ ReturnPath

Spec == Init /\ [][Next]_vars

\* One downloadFile call of an orchestrator, against any server.  It starts
\* where processAssets makes its first call, or where processSheetTab makes
\* its first call after every project fetch was answered with an error page.
InitFetch ==
  /\ run = 1
  /\ input \in Inputs
  /\ projects = input.projects
  /\ i = 1 /\ f = 1
  /\ dir = <<>>
  /\ downloadCount = 0 /\ skipCount = 0
  /\ homeWritten = <<>>
  /\ result = NoResult
  /\ sizeFailed = FALSE
  /\ targetReqs = 0
  /\ requests = 0
  /\ response = NoResponse
  /\ clock = 0
  /\ stale = {}
  /\ arg = NoCall /\ ret = NoRet
  /\ \/ /\ phase = "projects"
        /\ homeRows = <<>>
        /\ errorCount = 0
        /\ written = <<>>
        /\ filepath = Filename
        /\ stack = <<Call(getDirectDownloadUrl(FieldUrl), DefaultRetries, Null, "call")>>
        /\ fetchLog = <<LogEntry("projects", extractDriveFileId(FieldUrl))>>
     \/ /\ phase = "home"
        /\ homeRows = input.home
        /\ errorCount = Cardinality({k \in 1..Len(MediaFields) :
                                       extractDriveFileId(UrlOf(projects[1][MediaFields[k]])) # Null})
        /\ written = <<[run |-> 1, rows |-> projects]>>
        /\ filepath = HomeFilename
        /\ stack = <<Call(getDirectDownloadUrl(HomeUrl), 2, extractDriveFileId(HomeUrl), "call")>>
        /\ fetchLog = [k \in 1..errorCount |->
                         [run |-> 1, origin |-> "projects", i |-> 1, f |-> k,
                          id |-> extractDriveFileId(UrlOf(projects[1][MediaFields[k]]))]]
                      \o <<LogEntry("home", extractDriveFileId(HomeUrl))>>

\* The bodies that server may send.
FetchBodies == ServedBodies \cup {Mp4Body}

NextFetch ==
  \/ BeginAttempt
  \/ OnRedirect(MaxHops) \/ OnRedirectNoLocation \/ OnHttpError \/ OnOtherRedirectStatus
  \/ OnRequestError \/ OnTimeout
  \/ OnSizeExceeded \/ OnStaleData \/ OnStaleEnd \/ OnFinishMissing
  \/ OnInterstitial(MaxHops) \/ OnHtml
  \/ OnMediaOf(FetchBodies) \/ CatchRetry \/ CatchThrow \/ ReturnPath

SpecFetch == InitFetch /\ [][NextFetch]_vars

\* The same call against a server that answers every request with a transport
\* failure; timers fire and every request ends, at the latest by its timeout.
NextTransport ==
  \/ BeginAttempt
  \/ OnHttpError \/ OnRequestError \/ OnTimeout
  \/ CatchRetry \/ CatchThrow

SpecTransport == InitFetch /\ [][NextTransport]_vars /\ WF_vars(NextTransport)

\* downloadFile(url, filepath, retries) for a retry count of the caller's
\* choice, against the server that fails every request.
InitBackoff ==
  /\ run = 1
  /\ phase = "projects"
  /\ input \in Inputs
  /\ projects = input.projects
  /\ homeRows = <<>>
  /\ i = 1 /\ f = 1
  /\ dir = <<>>
  /\ downloadCount = 0 /\ skipCount = 0 /\ errorCount = 0
  /\ written = <<>>
  /\ homeWritten = <<>>
  /\ result = NoResult
  /\ sizeFailed = FALSE
  /\ targetReqs = 0
  /\ requests = 0
  /\ response = NoResponse
  /\ clock = 0
  /\ stale = {}
  /\ arg \in [fn : {"downloadFile"}, x : 1..MaxRetries]
  /\ ret = NoRet
  /\ filepath = Filename
  /\ stack = <<Call(getDirectDownloadUrl(FieldUrl), arg.x, Null, "call")>>
  /\ fetchLog = <<LogEntry("projects", extractDriveFileId(FieldUrl))>>

SpecBackoff == InitBackoff /\ [][NextTransport]_vars

\* The same call against a server that answers every request with a redirect
\* or with 200 and a media body.
NextChain ==
  \/ BeginAttempt \/ OnRedirect(MaxHops) \/ OnMediaOf(FetchBodies) \/ ReturnPath

SpecChain == InitFetch /\ [][NextChain]_vars

\* The same call against a server that only redirects or asks to confirm.
NextHops == BeginAttempt \/ OnRedirect(LoopHops) \/ OnInterstitial(LoopHops)

SpecHops == InitFetch /\ [][NextHops]_vars

\* processAssets up to the saved records, run CacheRuns times on one directory
\* against a server that answers 200 (a body or none) or an error status.
InitCache ==
  /\ run = 1
  /\ phase = "init"
  /\ i = 1 /\ f = 1
  /\ input \in CacheInputs
  /\ projects = <<>>
  /\ homeRows = <<>>
  /\ dir = <<>>
  /\ downloadCount = 0 /\ skipCount = 0 /\ errorCount = 0
  /\ written = <<>>
  /\ homeWritten = <<>>
  /\ stack = <<>>
  /\ result = NoResult
  /\ filepath = <<>>
  /\ fetchLog = <<>>
  /\ sizeFailed = FALSE
  /\ targetReqs = 0
  /\ requests = 0
  /\ response = NoResponse
  /\ clock = 0
  /\ stale = {}
  /\ arg = NoCall /\ ret = NoRet

NextCache ==
  \/ FetchProjectData
  \/ SkipField \/ CacheHitPrefix \/ CacheHitExact \/ StartDownload
  \/ DownloadResolved \/ DownloadRejected
  \/ SyncAndSave \/ SyncThrows
  \/ FetchHomeTabFails \/ ProcessAboutTab \/ RunAgain(CacheRuns)
  \/ BeginAttempt \/ OnHttpError \/ OnMedia \/ OnEmptyBody
  \/ CatchRetry \/ CatchThrow \/ ReturnPath

SpecCache == InitCache /\ [][NextCache]_vars

\* processAssets, run NumRuns times from an empty directory against a server
\* that answers every request 200 with a PNG and no content-disposition.
InitEnd ==
  /\ run = 1
  /\ phase = "init"
  /\ i = 1 /\ f = 1
  /\ input \in EndInputs
  /\ projects = <<>>
  /\ homeRows = <<>>
  /\ dir = <<>>
  /\ downloadCount = 0 /\ skipCount = 0 /\ errorCount = 0
  /\ written = <<>>
  /\ homeWritten = <<>>
  /\ stack = <<>>
  /\ result = NoResult
  /\ filepath = <<>>
  /\ fetchLog = <<>>
  /\ sizeFailed = FALSE
  /\ targetReqs = 0
  /\ requests = 0
  /\ response = NoResponse
  /\ clock = 0
  /\ stale = {}
  /\ arg = NoCall /\ ret = NoRet

OnPng ==
  /\ InFlight
  /\ FinishMedia(PngBody, NoHeader)
  /\ UNCHANGED <<orch, sizeFailed, targetReqs, requests, stale, clock>>

NextEnd ==
  \/ FetchProjectData
  \/ SkipField \/ CacheHitPrefix \/ StartDownload \/ DownloadResolved
  \/ SyncAndSave
  \/ FetchHomeTabFails \/ ProcessAboutTab \/ NextRun
  \/ BeginAttempt \/ OnPng \/ ReturnPath

SpecEnd == InitEnd /\ [][NextEnd]_vars

\* ------------------------------------------- the pure functions on their own
BufferWords == {"89504e47", "0d0a1a0a", "ffd8ffe0", "ffd8ffdb", "ftyp", "qt  ",
                "isom", "mp42", "1a45dfa3", "AVI ", "moov",
                "<html>", "<!DOCTYPE html>", "text"}
BufferSizes == {2048, 20000, 2 * 1024 * 1024}
\* words: the tokens of the first 100 bytes; rest: tokens further on.
Buffers ==
  { [words |-> w, rest |-> r, size |-> n] :
      w \in UNION {[1..len -> BufferWords] : len \in 1..MaxWords},
      r \in {<<>>, <<"<html>">>},
      n \in BufferSizes }

HeaderForms ==
  { [key |-> k, value |-> q \o name \o q] :
      k \in {"filename", "Filename", "FILENAME"},
      q \in {<<>>, <<"\"">>, <<"'">>},
      name \in {<<"clip", ".mov">>, <<"clip">>} }

Nested(url, inner) ==
  [shape |-> url.shape, id |-> url.id, confirm |-> "", uuid |-> "",
   also |-> [shape |-> inner.shape, id |-> inner.id]]
PlainUrls ==
  {NoUrl, NumberValue, LocalUrl, OtherUrl, getDirectDownloadUrl(ViewUrl(<<"A">>)),
   Url("drive.google.com/file/d/<id>/preview", <<"A">>)}
    \cup {Url(GOOGLE_DRIVE_PATTERNS[k], id) : k \in 1..3, id \in {<<"A">>, <<"B">>}}
NestedUrls ==
  {Nested(Url(s, <<"A">>), Url(GOOGLE_DRIVE_PATTERNS[k], <<"B">>)) :
     s \in {GOOGLE_DRIVE_PATTERNS[m] : m \in 1..3} \cup {"example.com/picture"},
     k \in 1..3}

InitPure ==
  /\ run = 1
  /\ phase = "init"
  /\ i = 1 /\ f = 1
  /\ input = [projects |-> <<>>, home |-> <<>>]
  /\ projects = <<>>
  /\ homeRows = <<>>
  /\ dir = <<>>
  /\ downloadCount = 0 /\ skipCount = 0 /\ errorCount = 0
  /\ written = <<>>
  /\ homeWritten = <<>>
  /\ stack = <<>>
  /\ result = NoResult
  /\ filepath = <<>>
  /\ fetchLog = <<>>
  /\ sizeFailed = FALSE
  /\ targetReqs = 0
  /\ requests = 0
  /\ response = NoResponse
  /\ clock = 0
  /\ stale = {}
  /\ ret = NoRet
  /\ \/ arg \in [fn : {"detectFileType"}, x : Buffers]
     \/ arg \in [fn : {"originalFilename"}, x : HeaderForms]
     \/ arg \in [fn : {"extractDriveFileId"}, x : PlainUrls]
     \/ arg \in [fn : {"extractDriveFileId"}, x : NestedUrls]

Returns(fn, v) ==
  /\ arg.fn = fn /\ ~ret.done
  /\ ret' = Ret(v)
  /\ UNCHANGED <<run, phase, i, f, input, arg, projects, homeRows, dir, downloadCount,
                 skipCount, errorCount, written, homeWritten, stack, result, filepath,
                 fetchLog, sizeFailed, targetReqs, requests, stale, response, clock>>

ApplyDetectFileType == Returns("detectFileType", detectFileType(arg.x))
ApplyOriginalFilename == Returns("originalFilename", originalFilename(arg.x))
ApplyExtractDriveFileId == Returns("extractDriveFileId", extractDriveFileId(arg.x))

NextPure == ApplyDetectFileType \/ ApplyOriginalFilename \/ ApplyExtractDriveFileId

SpecPure == InitPure /\ [][NextPure]_vars

\* One pipeline run from an empty directory against a server that never sends
\* a redirect status nor a confirmation page: it answers 200 with a body of any
\* size, with an error status, or not at all.  Timers fire and every event that
\* is due is delivered.
NextNoHops ==
  \/ FetchProjectData
  \/ SkipField \/ StartDownload \/ DownloadResolved \/ DownloadRejected
  \/ SyncAndSave
  \/ FetchHomeTab \/ FetchHomeTabFails
  \/ HomeSkip \/ HomeStartDownload \/ HomeDownloadResolved \/ HomeDownloadRejected
  \/ SaveHome \/ ProcessAboutTab
  \/ BeginAttempt
  \/ OnHttpError \/ OnRequestError \/ OnTimeout
  \/ OnSizeExceeded \/ OnStaleData \/ OnStaleEnd \/ OnFinishMissing
  \/ OnHtml \/ OnMedia
  \/ CatchRetry \/ CatchThrow \/ ReturnPath

SpecNoHops == Init /\ [][NextNoHops]_vars /\ WF_vars(NextNoHops)

\* ------------------------------------- the data handler, one event at a time
\* chunk.length of the chunks a response delivers: a small chunk, two sizes
\* that add up to MAX_FILE_SIZE, and MAX_FILE_SIZE itself.
ChunkSizes == {1024, 40 * 1024 * 1024, 60 * 1024 * 1024, MAX_FILE_SIZE}
ChunkSeqs == UNION {[1..len -> ChunkSizes] : len \in 1..MaxChunks}

\* let totalSize = 0, nothing written to `file`, the promise pending
NoWrites == [events |-> 0, totalSize |-> 0, written |-> 0, rejected |-> FALSE]

DataHandlerForgetful(local, chunk) ==
  IF local.totalSize + chunk > MAX_FILE_SIZE
  THEN [local EXCEPT !.events = @ + 1, !.rejected = TRUE]
  ELSE [local EXCEPT !.events = @ + 1, !.totalSize = @ + chunk, !.written = @ + chunk]

\* response.on("data", (chunk) => { totalSize += chunk.length;
\*   if (totalSize > MAX_FILE_SIZE) { file.destroy(); fs.unlink(...); reject(...); return }
\*   ...; file.write(chunk) })
DataHandler(local, chunk) ==
  LET totalSize == local.totalSize + chunk
  IN IF totalSize > MAX_FILE_SIZE
     THEN [local EXCEPT !.events = @ + 1, !.totalSize = totalSize, !.rejected = TRUE]
     ELSE [local EXCEPT !.events = @ + 1, !.totalSize = totalSize, !.written = @ + chunk]

\* One attempt's response is a 200 that delivers the chunks of arg.x.
InitStream ==
  /\ run = 1
  /\ phase = "init"
  /\ i = 1 /\ f = 1
  /\ input = [projects |-> <<>>, home |-> <<>>]
  /\ projects = <<>>
  /\ homeRows = <<>>
  /\ dir = <<>>
  /\ downloadCount = 0 /\ skipCount = 0 /\ errorCount = 0
  /\ written = <<>>
  /\ homeWritten = <<>>
  /\ stack = <<>>
  /\ result = NoResult
  /\ filepath = <<>>
  /\ fetchLog = <<>>
  /\ sizeFailed = FALSE
  /\ targetReqs = 0
  /\ requests = 0
  /\ response = NoResponse
  /\ clock = 0
  /\ stale = {}
  /\ arg \in [fn : {"data"}, x : ChunkSeqs]
  /\ ret = [done |-> FALSE, v |-> NoWrites]

\* the "data" event for the next chunk
OnData ==
  /\ arg.fn = "data" /\ ~ret.done
  /\ ret.v.events < Len(arg.x)
  /\ ret' = [ret EXCEPT !.v = DataHandler(ret.v, arg.x[ret.v.events + 1])]
  /\ UNCHANGED <<run, phase, i, f, input, arg, projects, homeRows, dir, downloadCount,
                 skipCount, errorCount, written, homeWritten, stack, result, filepath,
                 fetchLog, sizeFailed, targetReqs, requests, stale, response, clock>>

\* response.on("end", () => { file.end() })
OnEnd ==
  /\ arg.fn = "data" /\ ~ret.done
  /\ ret.v.events = Len(arg.x)
  /\ ret' = [ret EXCEPT !.done = TRUE]
  /\ UNCHANGED <<run, phase, i, f, input, arg, projects, homeRows, dir, downloadCount,
                 skipCount, errorCount, written, homeWritten, stack, result, filepath,
                 fetchLog, sizeFailed, targetReqs, requests, stale, response, clock>>

NextStream == OnData \/ OnEnd

SpecStream == InitStream /\ [][NextStream]_vars

\* SpecFetch's second start, as a state of a pipeline run (Spec reaches it).
HomeFetchStart ==
  /\ phase = "home" /\ Len(stack) = 1 /\ Top.pc = "start" /\ Top.attempt = 1
  /\ dir = <<>> /\ homeWritten = <<>> /\ run = 1 /\ skipCount = 0 /\ downloadCount = 0
  /\ errorCount = Len(fetchLog) - 1 /\ written = <<[run |-> 1, rows |-> input.projects]>>

\* ------------------------------------------------------------------ claims
\* The media reference the fetch in progress was started for.
Original ==
  IF phase = "home" THEN input.home[i][HomeKeys[f]] ELSE input.projects[i][MediaFields[f]]

\* C1 (as claimed): the redirect hops plus interstitial retries followed inside
\* one top-level fetch never exceed a hard cap of 10; at the cap the fetch fails
\* instead of issuing another request.
C1_HopsCapped == Hops <= 10

\* C2 (as claimed): every media field a run writes is either the original URL or
\* a local name with a real extension, never one carrying .tmp.
C2_NoTmpWritten ==
  \A k \in 1..Len(written) : \A p \in 1..Len(written[k].rows) :
    \A j \in 1..Len(MediaFields) :
      LET v == written[k].rows[p][MediaFields[j]]
      IN \/ v = input.projects[p][MediaFields[j]]
         \/ v.t = "local" /\ extname(v.name) \notin {"", ".tmp"}

\* C3 (as claimed): the confirmed-download URL requested after an interstitial
\* carries the file identifier of the record's original media URL, whichever
\* orchestrator made the call and however many redirects came first.
C3_ConfirmUrlKeepsId ==
  Fetching =>
    \A k \in 1..Len(stack) :
      stack[k].via = "interstitial" =>
        stack[k].url.id = extractDriveFileId(UrlOf(Original))

\* C4 (as claimed): the second run issues no download for an asset the first run
\* downloaded, for project records and Home Page rows alike, and when it
\* downloads nothing it writes what the first run wrote.
DownloadedBefore(e) ==
  IF e.origin = "projects"
  THEN \E k \in 1..Len(written) :
         written[k].run < e.run /\ written[k].rows[e.i][MediaFields[e.f]].t = "local"
  ELSE \E k \in 1..Len(homeWritten) :
         homeWritten[k].run < e.run /\ homeWritten[k].rows[e.i][HomeKeys[e.f]].t = "local"
C4_SecondRunAllCached ==
  /\ \A a \in 1..Len(fetchLog) : ~DownloadedBefore(fetchLog[a])
  /\ \A a, b \in 1..Len(written) :
       written[a].run = 1 /\ written[b].run = 2 /\ run = 2 /\ fetchLog = <<>>
         => written[a].rows = written[b].rows

\* C5 (as claimed): a redirect continuation runs on the remaining budget, so in
\* a fetch with budget n the redirect target is requested at most n times.
C5_TargetWithinBudget == targetReqs <= DefaultRetries

\* C6 (as claimed): after an attempt was rejected for size, the fetch issues no
\* further request for the asset.
C6_SizeIsFatal == sizeFailed => ~(Fetching /\ Top.pc = "inflight")

\* C7 (as claimed): when a body exceeds MAX_FILE_SIZE the fetch fails with the
\* size error, and once it has finished no file is left at the temporary path
\* or at a final name.
FilesOfFetch == {file \in DOMAIN dir : IsPrefix(StripExt(filepath), file)}
C7_SizeFailureLeavesNoFile ==
  sizeFailed /\ stack = <<>> /\ result.kind # "none" =>
    /\ result.kind = "rejected" /\ result.error = "size"
    /\ FilesOfFetch = {}

C9_FailureContained ==
  /\ phase # "uncaught"
  /\ phase = "projects" /\ Returned("rejected") => projects[i][FieldName] = Original

\* C10 (as claimed): no identifier is fetched more than once in a run, even when
\* the same URL is the value of two media fields.
C10_IdFetchedOnce ==
  \A a, b \in 1..Len(fetchLog) : a # b => fetchLog[a].id # fetchLog[b].id

\* C10 (amended): an orchestrator calls downloadFile at most once per (record,
\* field) in a run; the same identifier in two fields is fetched once per field.
C10_OncePerField ==
  \A a, b \in 1..Len(fetchLog) :
    a # b => <<fetchLog[a].origin, fetchLog[a].i, fetchLog[a].f>>
             # <<fetchLog[b].origin, fetchLog[b].i, fetchLog[b].f>>
C10_Witness ==
  \E a, b \in 1..Len(fetchLog) :
    /\ fetchLog[a].id = fetchLog[b].id /\ fetchLog[a].f # fetchLog[b].f
    /\ phase = "sync"

\* C11 (as claimed): where the asset directory holds a non-empty entry whose name
\* starts with <slug>-<field>-<identifier>, processAssets issues no request for
\* the field: the cache check hits instead of going on to downloadFile.
NonEmptyEntry ==
  \E file \in DOMAIN dir : IsPrefix(StripExt(Filename), file) /\ dir[file].size > 0
C11_NonEmptyEntryIsHit ==
  AtField /\ extractDriveFileId(FieldUrl) # Null /\ NonEmptyEntry
    => ~(PrefixMiss /\ ~ExactHit(dir, Filename))

Detected == arg.fn = "detectFileType" /\ ret.done
BeginsWithPng(buffer) ==
  /\ Len(buffer.words) >= 2
  /\ buffer.words[1] = "89504e47" /\ buffer.words[2] = "0d0a1a0a"
BeginsWithFFD8(buffer) ==
  buffer.words # <<>> /\ buffer.words[1] \in {"ffd8ffe0", "ffd8ffdb"}
FtypInFirst16(buffer) ==
  \E k \in 1..Len(buffer.words) :
    buffer.words[k] = "ftyp" /\ Offset(buffer.words, k) <= 12

\* C13 (as claimed): every buffer beginning with the 8-byte PNG signature is
\* typed .png and every buffer beginning with FFD8 is typed .jpg, whatever
\* bytes follow the signature.
C13_SignatureDecides ==
  Detected =>
    /\ BeginsWithPng(arg.x) => ret.v = ".png"
    /\ BeginsWithFFD8(arg.x) => ret.v = ".jpg"

\* C13 (amended): the same for every buffer that has no "ftyp" at a byte offset
\* of 12 or less; with one the container check, which comes first, decides.
C13_SignatureDecidesWithoutFtyp ==
  Detected /\ ~FtypInFirst16(arg.x) =>
    /\ BeginsWithPng(arg.x) => ret.v = ".png"
    /\ BeginsWithFFD8(arg.x) => ret.v = ".jpg"
C13_Witness ==
  /\ Detected /\ ~FtypInFirst16(arg.x)
  /\ arg.x.words = <<"ffd8ffdb", "<html>", "text">>
  /\ arg.x.size > 1024 * 1024
  /\ ret.v = ".jpg"

\* C14 (as claimed): every buffer smaller than 5KB whose text contains <html> or
\* <!DOCTYPE anywhere makes detectFileType throw instead of returning a type.
HasHtmlMarker(buffer) ==
  \E tok \in {buffer.words[k] : k \in 1..Len(buffer.words)}
              \cup {buffer.rest[k] : k \in 1..Len(buffer.rest)} :
    tok \in {"<html>", "<!DOCTYPE html>"}
C14_SmallHtmlThrows ==
  Detected /\ arg.x.size < 5 * 1024 /\ HasHtmlMarker(arg.x) => ret.v = "throw"

\* C15 (as claimed): a fetch that resolves has renamed the temporary file: the
\* path it returns names an existing file with a real extension (the declared
\* file name's when the response declared one, the sniffed one otherwise).
C15_ReturnedFileHasRealExtension ==
  Fetching /\ result.kind = "resolved" =>
    /\ result.path \in DOMAIN dir
    /\ extname(result.path) \in {".png", ".jpg", ".gif", ".webp", ".mp4", ".mov", ".avi", ".webm"}

\* C16 (as claimed): the file name a content-disposition header declares is
\* recognised whether it is quoted or not and however the key "filename" is
\* capitalised.
DeclaredName(contentDisposition) == Unquote(contentDisposition.value)
C16_AnyCaseAnyQuoting ==
  arg.fn = "originalFilename" /\ ret.done => ret.v = DeclaredName(arg.x)

\* C17: against a server that answers every request with a transport failure
\* (a status that is neither 200 nor a redirect, a connection error, the
\* timeout), a downloadFile call with budget n issues one request per attempt
\* and n in all; a failed attempt k < n leads to attempt k + 1; the call ends
\* only after attempt n, rejecting with the error that attempt settled with.
TransportErrors == {HttpError(status) : status \in {403, 404, 429, 500}} \cup {"network", "timeout"}
C17_RequestPerAttempt ==
  /\ requests <= DefaultRetries
  /\ Fetching =>
       /\ Top.retries = DefaultRetries /\ Top.attempt <= Top.retries
       /\ requests = IF Top.pc = "start" THEN Top.attempt - 1 ELSE Top.attempt
       /\ Top.pc = "settled" => result.kind = "rejected" /\ result.error \in TransportErrors
  /\ stack = <<>> =>
       /\ requests = DefaultRetries
       /\ result.kind = "rejected" /\ result.error \in TransportErrors
C17_TransportRetriedToBudget ==
  /\ []C17_RequestPerAttempt
  /\ [][stack' = <<>> => Top.attempt = Top.retries /\ result' = result]_vars
  /\ \A k \in 1..(DefaultRetries - 1) :
       (Fetching /\ Top.attempt = k /\ Top.pc = "settled")
         ~> (Fetching /\ Top.attempt = k + 1 /\ Top.pc = "inflight")
  /\ <>(stack = <<>>)
C17_Witness ==
  /\ stack = <<>> /\ requests = DefaultRetries
  /\ result.kind = "rejected" /\ result.error = "timeout"

\* C18 (as claimed): at every moment at most one request or response for an
\* asset is open: an attempt is in flight only when no response of an earlier
\* attempt is still open.
OpenResponses == Cardinality(stale) + Cardinality({k \in 1..Len(stack) : stack[k].pc = "inflight"})
C18_OneRequestOpen == OpenResponses <= 1

\* C19 (as claimed): a media field whose value is empty, no string or yields no
\* file identifier (a local path included) keeps its value through the run,
\* no downloadFile call is made for it and no counter counts it; the fields
\* that are no media fields keep their values.
YieldsId(p, j) == extractDriveFileId(UrlOf(input.projects[p][MediaFields[j]])) # Null
C19_NonAssetFieldsUntouched ==
  projects # <<>> =>
    /\ \A p \in 1..Len(projects) :
         /\ projects[p].projectName = input.projects[p].projectName
         /\ projects[p].year = input.projects[p].year
         /\ \A j \in 1..Len(MediaFields) :
              ~YieldsId(p, j) =>
                /\ projects[p][MediaFields[j]] = input.projects[p][MediaFields[j]]
                /\ \A a \in 1..Len(fetchLog) : <<fetchLog[a].i, fetchLog[a].f>> # <<p, j>>
    /\ downloadCount + skipCount + errorCount
         <= Cardinality({t \in (1..Len(projects)) \X (1..Len(MediaFields)) : YieldsId(t[1], t[2])})

\* C21 (as claimed): for a record named N whose media field F holds a recognised
\* URL with identifier I, where the directory held no matching entry and the
\* server answered 200 with a PNG and no content-disposition file name, the
\* records the run writes have record[F] = /assets/projects/<slug(N)>-F-I.png and
\* a file of exactly that name is in the asset directory.
PngName(e) ==
  createSafeFilename(input.projects[e.i].projectName, MediaFields[e.f],
                     UrlOf(input.projects[e.i][MediaFields[e.f]]), ".png")
C21_EndToEndPng ==
  \A k \in 1..Len(written) :
    written[k].run = run =>
      \A a \in 1..Len(fetchLog) :
        /\ written[k].rows[fetchLog[a].i][MediaFields[fetchLog[a].f]] = Local(PngName(fetchLog[a]))
        /\ PngName(fetchLog[a]) \in DOMAIN dir

\* C22 (as claimed): whenever a fetch has resolved, the file at the path it
\* returned holds exactly the body of the final 200 response: the same leading
\* bytes and the same length, nothing dropped, duplicated or altered.
Served == [words |-> response.body.words, size |-> Sum(response.body.chunks)]
C22_BytesPreserved ==
  result.kind = "resolved" =>
    /\ response.status = 200
    /\ result.path \in DOMAIN dir
    /\ dir[result.path] = Served

\* C23 (as claimed): the process exits non-zero only where the source data
\* cannot be fetched or parsed: once fetchProjectData has returned, no failure
\* of a download or of a tab ends the process with an error.
C23_ExitOnlyOnSourceFailure ==
  [][phase' \in {"exit1", "uncaught"} /\ phase' # phase => phase = "init"]_vars

\* C24: a fetch answered by redirects and then 200 resolves as a fetch whose
\* first response is that 200: it returns the name the finish handler gives the
\* temporary path for that response, the file of that name holds the response's
\* body, and the temporary path is left only where it is that name.
DirectPath == FinalFilepath(filepath, originalFilename(response.header), Served)
C24_RedirectsTransparent ==
  result.kind = "resolved" =>
    /\ result.path = DirectPath
    /\ dir[result.path] = Served
    /\ filepath \in DOMAIN dir => filepath = DirectPath
C24_Witness ==
  /\ stack = <<>> /\ result.kind = "resolved"
  /\ requests = 3 /\ targetReqs = 1 /\ clock = 0
  /\ response.status = 200 /\ response.body = Mp4Body /\ response.header = NoHeader
  /\ extname(result.path) = ".mp4"
  /\ dir[result.path].size = 128 * 1024

\* C25 (as claimed): every response with a 3xx status and a Location header is
\* followed: the next thing the fetch does is a fresh call for the Location
\* target and the same asset, whatever the 3xx code is.
C25_Any3xxFollowed ==
  response.status \in 300..399 /\ response.location =>
    /\ Fetching /\ Len(stack) > 1
    /\ Top.via = "redirect" /\ Top.pc = "start"
    /\ Top.url \in Locations(stack[Len(stack) - 1].url)

\* C26 (as claimed): an attempt moves only from requesting to a continuation
\* (redirect, confirmed download) or to a settled outcome, and from a
\* continuation to its outcome; a settled attempt is over: every request and
\* every write, rename or delete of a file is part of a step of the attempt in
\* progress, and a call leaves "settled" only by starting its next attempt.
ListedTransitions ==
  {<<"start", "inflight">>, <<"inflight", "child">>, <<"inflight", "settled">>,
   <<"child", "settled">>}
C26_SettledIsTerminal ==
  [][/\ \A k \in 1..Len(stack) :
          k <= Len(stack') /\ stack'[k].pc # stack[k].pc =>
            \/ <<stack[k].pc, stack'[k].pc>> \in ListedTransitions
            \/ /\ stack[k].pc = "settled" /\ stack'[k].pc = "start"
               /\ stack'[k].attempt = stack[k].attempt + 1
     /\ Fetching /\ stack' = stack => dir' = dir /\ requests' = requests]_vars

\* C27: the delays are linear and lie between attempts only: a call on attempt a
\* has so far waited 1000 ms after attempt 1, 2000 ms after attempt 2, ...,
\* (a - 1) x 1000 ms after attempt a - 1 and nothing else, and a call that has
\* thrown after its last attempt n has waited 1000 + ... + (n - 1) x 1000 ms:
\* no delay follows the final attempt.
Waited(attempts) == 500 * (attempts - 1) * attempts
C27_LinearBackoff ==
  /\ Fetching => Top.retries = arg.x /\ clock = Waited(Top.attempt)
  /\ stack = <<>> => result.kind = "rejected" /\ clock = Waited(arg.x)
C27_Witness ==
  /\ stack = <<>> /\ result.kind = "rejected"
  /\ arg.x = 3 /\ requests = 3 /\ clock = 3000

\* C28: when "ftyp" is found at a byte offset of 12 or less, detectFileType
\* returns .mp4 for the brands isom, M4V, mp41, mp42 (any brand containing
\* mp4), .mov for a brand containing qt or mov, and .mp4 for every other brand
\* or none, whatever signature (AVI, WebM, JPEG, PNG) the buffer starts with and
\* whatever its size.
BrandOf(buffer) == WordAt(buffer.words, FirstPos(buffer.words, "ftyp") + 1)
\* Of the tokens a buffer is made of, the ones containing "qt" or "mov".
QuickTimeBrands == {"qt  "}
C28_FtypDecidesFirst ==
  Detected /\ FtypInFirst16(arg.x) =>
    ret.v = IF BrandOf(arg.x) \in QuickTimeBrands THEN ".mov" ELSE ".mp4"
C28_Witness ==
  /\ Detected
  /\ arg.x.words = <<"1a45dfa3", "ftyp", "qt  ">>
  /\ arg.x.size = 2048
  /\ ret.v = ".mov"

\* C29 (as claimed): a buffer that matches a container, AVI, WebM or image
\* signature gets that signature's type whatever its size; any other buffer is
\* typed .mp4 when it is larger than 1MB, else .mp4 when it is larger than 10KB
\* and its first 100 bytes hold ftyp, moov or mdat, else detectFileType fails
\* when it is smaller than 5KB and holds an HTML marker, else it is typed .jpg.
SignatureType(buffer) ==
  IF FtypInFirst16(buffer)
  THEN IF BrandOf(buffer) \in QuickTimeBrands THEN ".mov" ELSE ".mp4"
  ELSE IF WordAt(buffer.words, 1) = "AVI " THEN ".avi"
  ELSE IF WordAt(buffer.words, 1) = "1a45dfa3" THEN ".webm"
  ELSE IF BeginsWithFFD8(buffer) THEN ".jpg"
  ELSE IF BeginsWithPng(buffer) THEN ".png"
  ELSE ""
HasVideoMarker(buffer) ==
  \E k \in 1..Len(buffer.words) : buffer.words[k] \in {"ftyp", "moov", "mdat"}
BySize(buffer) ==
  IF buffer.size > 1024 * 1024 THEN ".mp4"
  ELSE IF buffer.size > 10 * 1000 /\ HasVideoMarker(buffer) THEN ".mp4"
  ELSE IF buffer.size < 5 * 1000 /\ HasHtmlMarker(buffer) THEN "throw"
  ELSE ".jpg"
C29_FallbackBySize ==
  Detected =>
    ret.v = IF SignatureType(arg.x) # "" THEN SignatureType(arg.x) ELSE BySize(arg.x)

\* C30: once processAssets is through its records, downloadCount + skipCount +
\* errorCount is the number of (record, media field) pairs whose value yielded
\* an identifier, and each such pair is in exactly one counter: downloaded are
\* the pairs whose fetch resolved (the field is local and the fetched file is
\* there), errored the pairs whose fetch rejected (the field keeps its URL),
\* skipped the pairs no fetch was made for (the field is the cached entry).
AssetPairs ==
  {t \in (1..Len(projects)) \X (1..Len(MediaFields)) : YieldsId(t[1], t[2])}
FetchedPairs ==
  {t \in AssetPairs :
     \E a \in 1..Len(fetchLog) :
       fetchLog[a].origin = "projects" /\ <<fetchLog[a].i, fetchLog[a].f>> = t}
ValueOf(t) == projects[t[1]][MediaFields[t[2]]]
BaseOf(t) ==
  StripExt(createSafeFilename(input.projects[t[1]].projectName, MediaFields[t[2]],
                              UrlOf(input.projects[t[1]][MediaFields[t[2]]]), ".tmp"))
HasFile(t) == \E file \in DOMAIN dir : IsPrefix(BaseOf(t), file)
C30_CountersPartitionAssets ==
  phase \in {"sync", "hometab", "home", "homesave", "abouttab", "done"} =>
    /\ downloadCount + skipCount + errorCount = Cardinality(AssetPairs)
    /\ downloadCount = Cardinality({t \in FetchedPairs : ValueOf(t).t = "local"})
    /\ errorCount = Cardinality({t \in FetchedPairs : ValueOf(t) = input.projects[t[1]][MediaFields[t[2]]]})
    /\ skipCount = Cardinality(AssetPairs \ FetchedPairs)
    /\ \A t \in AssetPairs : ValueOf(t).t = "local" => HasFile(t)
    /\ \A t \in AssetPairs \ FetchedPairs : ValueOf(t).t = "local" /\ ValueOf(t).name \in DOMAIN dir
C30_Witness ==
  /\ phase = "done" /\ run = 2
  /\ Cardinality(AssetPairs) = 2
  /\ skipCount = 1 /\ errorCount = 1 /\ downloadCount = 0

\* C20: extractDriveFileId never throws; it returns null for a value that is no
\* string, is empty or matches none of the three patterns, and otherwise the
\* non-empty identifier captured by the first pattern, in the order of
\* GOOGLE_DRIVE_PATTERNS, that matches; applying it changes nothing else.
MatchingPatterns(url) ==
  IF url = NoUrl \/ ~IsString(url) THEN {}
  ELSE {k \in 1..Len(GOOGLE_DRIVE_PATTERNS) : Match(url, k) # Null}
C20_ExtractTotal ==
  arg.fn = "extractDriveFileId" /\ ret.done =>
    /\ ret.v # Throw
    /\ MatchingPatterns(arg.x) = {} => ret.v = Null
    /\ MatchingPatterns(arg.x) # {} =>
         /\ ret.v # Null
         /\ \E k \in MatchingPatterns(arg.x) :
              (\A j \in MatchingPatterns(arg.x) : k <= j) /\ ret.v = Match(arg.x, k)
    /\ dir = <<>> /\ stack = <<>> /\ projects = <<>>
C20_Witness ==
  /\ arg.fn = "extractDriveFileId" /\ ret.done
  /\ Cardinality(MatchingPatterns(arg.x)) = 2
  /\ ret.v = <<"B">>

\* C31 (as claimed): a media field is only ever resolved to a file stored for
\* its own (slug, field, identifier): whenever a field that yields an identifier
\* holds a local path, by the cache check of processAssets or by syncFilenames,
\* the file it names is the one named after that record's slug, that field and
\* that identifier, so fields with different keys never share a file.
C31_CacheKeyedByIdentifier ==
  \A t \in AssetPairs :
    ValueOf(t).t = "local" => StripExt(ValueOf(t).name) = BaseOf(t)

\* C32 (as claimed): a field is reported as already existing, and gets a local
\* path without a fetch of its own, only for a file that a fetch wrote to its
\* end: the file named holds a whole media body, never the part of a body that
\* an attempt had written when it timed out or lost its connection.
WholeBodies ==
  {Written(body) : body \in {b \in FetchBodies : ~TooLarge(b) /\ Classify(b.words) = "media"}}
HomeFetched(k, j) ==
  \E a \in 1..Len(fetchLog) :
    fetchLog[a].origin = "home" /\ fetchLog[a].i = k /\ fetchLog[a].f = j
IsWhole(name) == name \in DOMAIN dir /\ dir[name] \in WholeBodies
C32_PartialNeverCached ==
  /\ \A t \in AssetPairs \ FetchedPairs :
       ValueOf(t).t = "local" => IsWhole(ValueOf(t).name)
  /\ phase \in {"home", "homesave", "abouttab", "done"} =>
       \A k \in 1..Len(homeRows), j \in 1..Len(HomeKeys) :
         homeRows[k][HomeKeys[j]].t = "local" /\ ~HomeFetched(k, j)
           => IsWhole(homeRows[k][HomeKeys[j]].name)

\* C33 (as claimed): a response with status 301, 302, 303, 307 or 308 and no
\* Location header fails its attempt like any other per-asset error: the
\* attempt's promise is rejected, for the retry loop and then the orchestrator's
\* catch to handle, and no exception leaves the promise to end the run.
C33_RedirectWithoutLocationRejects ==
  response.status \in RedirectCodes /\ ~response.location =>
    /\ phase \in {"projects", "home"}
    /\ Fetching /\ Top.pc = "settled"
    /\ result.kind = "rejected"

\* C34 (as claimed): the handlers of an attempt that was rejected for size leave
\* the next attempt alone: while a later attempt (or a redirect or confirmation
\* continuation) is in flight and takes no step of its own, the file at the
\* temporary path it writes stays in the directory with its content, whatever
\* still arrives on the response of the rejected attempt.
C34_FailedAttemptLeavesNextAlone ==
  [][\A path \in stale :
       InFlight /\ stack' = stack /\ path \in DOMAIN dir
         => path \in DOMAIN dir' /\ dir'[path] = dir[path]]_vars

\* C35: the bytes one attempt writes to its temporary file never exceed
\* MAX_FILE_SIZE: after any number of data events the handler has written the
\* chunks before the first one whose running total passes the ceiling, and
\* neither that chunk nor any chunk after it; the attempt is rejected from that
\* chunk on.  At the end of the response this is the content the finish
\* handler's summary (Accepted) takes the file to have.
Crossing(chunks) ==
  LET over == {n \in 1..Len(chunks) : Sum(SubSeq(chunks, 1, n)) > MAX_FILE_SIZE}
  IN IF over = {} THEN Len(chunks) + 1 ELSE CHOOSE n \in over : \A m \in over : n <= m
WrittenSoFar(chunks, events) ==
  Sum(SubSeq(chunks, 1, IF events < Crossing(chunks) THEN events ELSE Crossing(chunks) - 1))
C35_WrittenWithinCeiling ==
  arg.fn = "data" =>
    /\ ret.v.written <= MAX_FILE_SIZE
    /\ ret.v.written = WrittenSoFar(arg.x, ret.v.events)
    /\ ret.v.rejected <=> ret.v.events >= Crossing(arg.x)
    /\ ret.done => ret.v.written = Sum(Accepted(arg.x, 0))
C35_Witness ==
  /\ arg.fn = "data" /\ ret.done
  /\ arg.x = <<60 * 1024 * 1024, 60 * 1024 * 1024, 1024>>
  /\ ret.v.rejected
  /\ ret.v.written = 60 * 1024 * 1024

\* C36 (as claimed): against a server that sends no redirect and no confirmation
\* page, and with every request ending in a response, an error or a timeout,
\* every downloadFile call of budget n issues at most n requests and then
\* resolves or rejects to its caller, and processAssets gets through every
\* record and field to its end.
C36_TerminatesWithoutHops ==
  /\ [](requests <= DefaultRetries)
  /\ Fetching ~> (stack = <<>> /\ result.kind \in {"resolved", "rejected"})
  /\ <>(phase = "done")

====
